---- MODULE Spec2Model ----
(***************************************************************************)
(* Model of trezor_agent/gpg/__main__.py: the `create` command             *)
(* (run_create, key_exists) and the `agent` command (run_agent), both      *)
(* dispatched by main.  One behaviour is a series of invocations of the    *)
(* program against one gpg keyring; between two invocations the user may   *)
(* import the key block the previous invocation printed.                   *)
(***************************************************************************)
EXTENDS Integers, Sequences, FiniteSets, TLC

\* ------------------------------------------------------------------ bounds
MaxRuns == 2
MaxConns == 3

\* ------------------------------------------------------------------ inputs
UserIds == {"alice", "bob"}
EcdsaCurves == {"nist256p1", "ed25519"}
Times == {1, 2}
GpgVersions == {<<2, 1, 14>>, <<2, 1, 15>>, <<2, 2, 0>>}

VARIABLES
    pc,             \* position of the running invocation
    args,           \* parsed command line: command, user_id, ecdsa_curve, time
    existing_gpg,   \* keyring.gpg_version()
    nruns,          \* invocations of main so far
    keyring,        \* the gpg public keyring: a sequence of key blocks
    history,        \* successful run_create calls so far
    exc,            \* exception in flight / raised out of the command
    logs,           \* log records of this invocation
    conn,           \* run_create: the HardwareSigner session (0: none)
    nsessions,      \* device sessions opened so far
    signerLog,      \* requests made to the signer in this invocation
    verifying_key,  \* run_create local
    decryption_key, \* run_create local
    mode,           \* branch of run_create taken: "none", "extend", "new"
    descs,          \* the protocol.PublicKey descriptors run_create built
    encCalls,       \* calls made to the encoder in this invocation
    result,         \* run_create local: the container
    stdout,         \* what this invocation wrote to sys.stdout
    sock,           \* run_agent: the listening endpoint
    iter,           \* run_agent: the generator agent.yield_connections(sock)
    conns,          \* run_agent: the connections accepted, in order
    lookups,        \* keyring reads made in this invocation
    primary_bytes   \* run_create local (extend branch)

vars == <<pc, args, existing_gpg, nruns, keyring, history, exc, logs, conn,
          nsessions, signerLog, verifying_key, decryption_key, mode, descs,
          encCalls, result, stdout, sock, iter, conns, lookups, primary_bytes>>

createVars == <<conn, nsessions, signerLog, verifying_key, decryption_key,
                mode, descs, encCalls, result, stdout, lookups, history,
                primary_bytes>>
agentVars == <<sock, iter, conns>>

\* ------------------------------------------------------------ data shapes
NoArgs == [command |-> "-", user_id |-> "-", ecdsa_curve |-> "-", time |-> 0]
NoVerifyingKey == [user_id |-> "-", curve_name |-> "-", ecdh |-> FALSE]
NoPubKey == [curve_name |-> "-", created |-> 0,
             verifying_key |-> NoVerifyingKey, ecdh |-> FALSE]

\* A packet of a key block, as decode.parse_packets yields it.
Packet(type, value, pubkey) == [type |-> type, value |-> value, pubkey |-> pubkey]

\* A key that plain gpg created for alice before the program ever ran.
ForeignKey == [curve_name |-> "nist256p1", created |-> 0,
               verifying_key |-> [user_id |-> "gpg", curve_name |-> "nist256p1",
                                  ecdh |-> FALSE],
               ecdh |-> FALSE]
ForeignBlock == << Packet("pubkey", "-", ForeignKey),
                   Packet("user_id", "alice", NoPubKey),
                   Packet("signature", "-", ForeignKey) >>
\* Another such key, for another holder, with a packet of another type whose
\* value reads like a user id.
DecoyKey == [curve_name |-> "ed25519", created |-> 0,
             verifying_key |-> [user_id |-> "gpg", curve_name |-> "ed25519",
                                ecdh |-> FALSE],
             ecdh |-> FALSE]
DecoyBlock == << Packet("pubkey", "-", DecoyKey),
                 Packet("user_id", "carol", NoPubKey),
                 Packet("user_attribute", "bob", NoPubKey),
                 Packet("signature", "-", DecoyKey) >>
InitialKeyrings == { <<>>, <<ForeignBlock>>, <<DecoyBlock>> }

\* ----------------------------------------------------- external services
\* semver.match(existing_gpg, '>=2.1.15') on (major, minor, patch).
required_gpg == <<2, 1, 15>>
semver_match(v, req) ==
    \/ v[1] > req[1]
    \/ v[1] = req[1] /\ v[2] > req[2]
    \/ v[1] = req[1] /\ v[2] = req[2] /\ v[3] >= req[3]

\* formats.get_ecdh_curve_name: the key-agreement companion of a signing curve.
get_ecdh_curve_name(curve_name) ==
    CASE curve_name = "nist256p1" -> "nist256p1"
      [] curve_name = "ed25519" -> "curve25519"
      [] curve_name = "curve25519" -> "curve25519"

\* HardwareSigner.pubkey: the device derives the key from the identity, the
\* session's curve and the usage; the same request always gives the same key.
pubkey(user_id, curve_name, ecdh) ==
    [user_id |-> user_id,
     curve_name |-> IF ecdh THEN get_ecdh_curve_name(curve_name) ELSE curve_name,
     ecdh |-> ecdh]

\* protocol.PublicKey(curve_name, created, verifying_key, ecdh)
PublicKey(curve_name, created, vk, ecdh) ==
    [curve_name |-> curve_name, created |-> created,
     verifying_key |-> vk, ecdh |-> ecdh]

\* encode.create_primary: public key, user id, self-signature.
create_primary(user_id, pk) ==
    << Packet("pubkey", "-", pk),
       Packet("user_id", user_id, NoPubKey),
       Packet("signature", "-", pk) >>

\* encode.create_subkey: the input container with the subkey and its binding
\* signature appended.
create_subkey(container, sk) ==
    container \o << Packet("subkey", "-", sk), Packet("signature", "-", sk) >>

\* protocol.armor(blob, 'PUBLIC KEY BLOCK')
armor(blob, type_str) == [head |-> type_str, body |-> blob]

\* keyring.export_public_keys(): every block of the keyring, concatenated.
RECURSIVE export_public_keys(_)
export_public_keys(kr) ==
    IF kr = <<>> THEN <<>> ELSE Head(kr) \o export_public_keys(Tail(kr))

\* decode.parse_packets: the records of a byte stream, each with type and value.
parse_packets(bytes) ==
    [i \in 1..Len(bytes) |-> [type |-> bytes[i].type, value |-> bytes[i].value]]

HasUserId(block, user_id) ==
    \E i \in 1..Len(block) : block[i].type = "user_id" /\ block[i].value = user_id

\* keyring.export_public_key(user_id): the block of the key with that user id.
export_public_key(kr, user_id) ==
    LET hits == {i \in 1..Len(kr) : HasUserId(kr[i], user_id)}
    IN  IF hits = {} THEN <<>>
        ELSE kr[CHOOSE i \in hits : \A j \in hits : i <= j]

\* gpg2 --import of a block: a block with the same primary key is replaced by
\* the imported one, any other block is added.
ImportBlock(kr, block) ==
    LET same == {i \in 1..Len(kr) : kr[i][1] = block[1]}
    IN  IF same = {} THEN Append(kr, block)
        ELSE [i \in 1..Len(kr) |-> IF i \in same THEN block ELSE kr[i]]

\* ------------------------------------------------------------- key_exists
\* The loop of key_exists over the decoded packets.
PacketsMatch_FirstOnly(packets, user_id) ==
    packets # <<>> /\ Head(packets).type = "user_id" /\ Head(packets).value = user_id
PacketsMatch_IgnoresType(packets, user_id) ==
    \E i \in 1..Len(packets) : packets[i].value = user_id
RECURSIVE PacketsMatch(_, _)
PacketsMatch(packets, user_id) ==
    IF packets = <<>> THEN FALSE
    ELSE IF Head(packets).type = "user_id" /\ Head(packets).value = user_id
         THEN TRUE
         ELSE PacketsMatch(Tail(packets), user_id)

key_exists(user_id) == PacketsMatch(parse_packets(export_public_keys(keyring)), user_id)

\* ------------------------------------------------------------------- Init
Init ==
    /\ pc = "main"
    /\ args = NoArgs
    /\ existing_gpg = <<0, 0, 0>>
    /\ nruns = 0
    /\ keyring \in InitialKeyrings
    /\ history = <<>>
    /\ exc = "none"
    /\ logs = <<>>
    /\ conn = 0
    /\ nsessions = 0
    /\ signerLog = <<>>
    /\ verifying_key = NoVerifyingKey
    /\ decryption_key = NoVerifyingKey
    /\ mode = "none"
    /\ descs = <<>>
    /\ encCalls = <<>>
    /\ result = <<>>
    /\ stdout = <<>>
    /\ sock = "unbound"
    /\ iter = "none"
    /\ conns = <<>>
    /\ lookups = <<>>
    /\ primary_bytes = <<>>

\* ------------------------------------------------------------------- main
ArgsSet ==
    [command : {"create"}, user_id : UserIds, ecdsa_curve : EcdsaCurves, time : Times]
    \cup {[command |-> "agent", user_id |-> "-", ecdsa_curve |-> "-", time |-> 0]}

\* args.run, set by set_defaults(run=...) of the selected subcommand.
RunOf(a) == IF a.command = "create" THEN "rc_connect" ELSE "ra_bind"

\* Where main goes after the gpg version check.
Dispatch_NoCheck(a, v) == RunOf(a)
Dispatch(a, v) == IF semver_match(v, required_gpg) THEN RunOf(a) ELSE "exited"

Main ==
    /\ pc = "main"
    /\ nruns < MaxRuns
    /\ \E a \in ArgsSet, v \in GpgVersions :
        /\ args' = a
        /\ existing_gpg' = v
        /\ pc' = Dispatch(a, v)
        /\ logs' = IF semver_match(v, required_gpg)
                   THEN <<"experimental">>
                   ELSE <<"experimental", "gpg_version_error">>
    /\ nruns' = nruns + 1
    /\ UNCHANGED <<keyring, exc, createVars, agentVars>>

\* The program is started again.
Restart ==
    /\ pc = "exited"
    /\ nruns < MaxRuns
    /\ pc' = "main"
    /\ args' = NoArgs
    /\ existing_gpg' = <<0, 0, 0>>
    /\ exc' = "none"
    /\ logs' = <<>>
    /\ conn' = 0
    /\ signerLog' = <<>>
    /\ verifying_key' = NoVerifyingKey
    /\ decryption_key' = NoVerifyingKey
    /\ mode' = "none"
    /\ descs' = <<>>
    /\ encCalls' = <<>>
    /\ result' = <<>>
    /\ stdout' = <<>>
    /\ sock' = "unbound"
    /\ iter' = "none"
    /\ conns' = <<>>
    /\ lookups' = <<>>
    /\ primary_bytes' = <<>>
    /\ UNCHANGED <<nruns, keyring, history, nsessions>>

\* The user pipes the printed key block into gpg2 --import.
Import ==
    /\ pc = "exited"
    /\ stdout # <<>>
    /\ history # <<>>
    /\ ~history[Len(history)].imported
    /\ keyring' = ImportBlock(keyring, stdout[Len(stdout)].body)
    /\ history' = [history EXCEPT ![Len(history)].imported = TRUE]
    /\ UNCHANGED <<pc, args, existing_gpg, nruns, exc, logs, conn, nsessions,
                   signerLog, verifying_key, decryption_key, mode, descs,
                   encCalls, result, stdout, sock, iter, conns, lookups,
                   primary_bytes>>

\* ------------------------------------------------------------- run_create
Outcomes == {"ok", "fail"}

\* An exception leaves the command: nothing after the raising call runs.
Abort_Retry(e) == pc' = pc /\ exc' = e
Abort(e) == pc' = "exited" /\ exc' = e

\* The branch of `if key_exists(args.user_id): ... else: ...`.
ModeFor_AlwaysNew(exists) == "new"
ModeFor(exists) == IF exists THEN "extend" ELSE "new"

\* curve_name argument of the key-agreement descriptor.
EcdhCurveArg_Same(a) == a.ecdsa_curve
EcdhCurveArg(a) == get_ecdh_curve_name(a.ecdsa_curve)

\* Extend branch: the two descriptors.
signing_key_StampedNow(a, vk) == PublicKey(a.ecdsa_curve, nruns, vk, FALSE)
signing_key(a, vk) == PublicKey(a.ecdsa_curve, a.time, vk, FALSE)
encryption_key_SigningRole(a, dk) == PublicKey(EcdhCurveArg(a), a.time, dk, FALSE)
encryption_key(a, dk) == PublicKey(EcdhCurveArg(a), a.time, dk, TRUE)

\* New branch: the two descriptors.
primary_StampedNow(a, vk) == PublicKey(a.ecdsa_curve, nruns, vk, FALSE)
primary(a, vk) == PublicKey(a.ecdsa_curve, a.time, vk, FALSE)
subkey_SigningKey(a, dk) == PublicKey(EcdhCurveArg(a), a.time, verifying_key, TRUE)
subkey(a, dk) == PublicKey(EcdhCurveArg(a), a.time, dk, TRUE)

DescriptorsFor(m, a, vk, dk) ==
    IF m = "extend"
    THEN [signing_key |-> signing_key(a, vk), encryption_key |-> encryption_key(a, dk)]
    ELSE [primary |-> primary(a, vk), subkey |-> subkey(a, dk)]

\* Extend branch: the subkeys in the order of the two create_subkey calls.
ExtendOrder_Swapped(d) == <<d.encryption_key, d.signing_key>>
ExtendOrder(d) == <<d.signing_key, d.encryption_key>>

\* New branch: the container handed to create_subkey.
NewSubkeyInput_Empty(r) == <<>>
NewSubkeyInput(r) == r

EncCall(op, user_id, bytes, key, signer_func, ok, out) ==
    [op |-> op, user_id |-> user_id, primary_bytes |-> bytes, key |-> key,
     signer_func |-> signer_func, ok |-> ok, result |-> out]

SignerReq(session, op, ecdh) == [session |-> session, op |-> op, ecdh |-> ecdh]

RunCreate_Connect ==
    /\ pc = "rc_connect"
    /\ logs' = Append(logs, "note_time")
    /\ \E o \in Outcomes :
        IF o = "ok"
        THEN /\ conn' = nsessions + 1
             /\ nsessions' = nsessions + 1
             /\ pc' = "rc_pubkey"
             /\ exc' = exc
        ELSE /\ Abort("SignerUnavailable")
             /\ UNCHANGED <<conn, nsessions>>
    /\ UNCHANGED <<args, existing_gpg, nruns, keyring, history, signerLog,
                   verifying_key, decryption_key, mode, descs, encCalls, result,
                   stdout, sock, iter, conns, lookups, primary_bytes>>

RunCreate_Pubkey ==
    /\ pc = "rc_pubkey"
    /\ signerLog' = Append(signerLog, SignerReq(conn, "pubkey", FALSE))
    /\ \E o \in Outcomes :
        IF o = "ok"
        THEN /\ verifying_key' = pubkey(args.user_id, args.ecdsa_curve, FALSE)
             /\ pc' = "rc_pubkey_ecdh"
             /\ exc' = exc
        ELSE /\ Abort("SignerUnavailable")
             /\ UNCHANGED verifying_key
    /\ UNCHANGED <<args, existing_gpg, nruns, keyring, history, logs, conn,
                   nsessions, decryption_key, mode, descs, encCalls, result,
                   stdout, sock, iter, conns, lookups, primary_bytes>>

RunCreate_PubkeyEcdh ==
    /\ pc = "rc_pubkey_ecdh"
    /\ signerLog' = Append(signerLog, SignerReq(conn, "pubkey", TRUE))
    /\ \E o \in Outcomes :
        IF o = "ok"
        THEN /\ decryption_key' = pubkey(args.user_id, args.ecdsa_curve, TRUE)
             /\ pc' = "rc_key_exists"
             /\ exc' = exc
        ELSE /\ Abort("SignerUnavailable")
             /\ UNCHANGED decryption_key
    /\ UNCHANGED <<args, existing_gpg, nruns, keyring, history, logs, conn,
                   nsessions, verifying_key, mode, descs, encCalls, result,
                   stdout, sock, iter, conns, lookups, primary_bytes>>

\* A read of the keyring and how it ended.
Lookup(op, o) == [op |-> op, ok |-> (o = "ok")]

\* What the call key_exists(args.user_id) gives run_create: the value it
\* returns, or the exception of the export or of the decoder, which it does not
\* catch.
KeyExistsCall_FalseOnError(o, user_id) ==
    IF o = "ok" /\ key_exists(user_id) THEN "True" ELSE "False"
KeyExistsCall(o, user_id) ==
    IF o = "ok" THEN (IF key_exists(user_id) THEN "True" ELSE "False") ELSE "raise"

\* `if key_exists(args.user_id)`, the log line of the branch and its descriptors.
RunCreate_KeyExists ==
    /\ pc = "rc_key_exists"
    /\ \E o \in Outcomes :
        /\ lookups' = Append(lookups, Lookup("export_public_keys", o))
        /\ IF KeyExistsCall(o, args.user_id) # "raise"
           THEN LET m == ModeFor(KeyExistsCall(o, args.user_id) = "True") IN
                /\ mode' = m
                /\ logs' = Append(logs, IF m = "extend" THEN "adding_subkey"
                                        ELSE "creating_primary")
                /\ descs' = DescriptorsFor(m, args, verifying_key, decryption_key)
                /\ pc' = IF m = "extend" THEN "rc_export" ELSE "rc_primary"
                /\ exc' = exc
           ELSE /\ Abort("LookupFailed")
                /\ UNCHANGED <<mode, logs, descs>>
    /\ UNCHANGED <<args, existing_gpg, nruns, keyring, history, conn, nsessions,
                   signerLog, verifying_key, decryption_key, encCalls, result,
                   stdout, sock, iter, conns, primary_bytes>>

RunCreate_Export ==
    /\ pc = "rc_export"
    /\ \E o \in Outcomes :
        /\ lookups' = Append(lookups, Lookup("export_public_key", o))
        /\ IF o = "ok"
           THEN /\ primary_bytes' = export_public_key(keyring, args.user_id)
                /\ pc' = "rc_subkey_1"
                /\ exc' = exc
           ELSE /\ Abort("LookupFailed")
                /\ UNCHANGED primary_bytes
    /\ UNCHANGED <<args, existing_gpg, nruns, keyring, history, logs, conn,
                   nsessions, signerLog, verifying_key, decryption_key, mode,
                   descs, encCalls, result, stdout, sock, iter, conns>>

\* One encoder call: it asks signer_func for a signature and returns `out`.
Encode(op, user_id, bytes, key, out, next) ==
    /\ signerLog' = Append(signerLog, SignerReq(conn, "sign", FALSE))
    /\ \E o \in Outcomes :
        IF o = "ok"
        THEN /\ encCalls' = Append(encCalls,
                                   EncCall(op, user_id, bytes, key, conn, TRUE, out))
             /\ result' = out
             /\ pc' = next
             /\ exc' = exc
        ELSE /\ encCalls' = Append(encCalls,
                                   EncCall(op, user_id, bytes, key, conn, FALSE, <<>>))
             /\ Abort("EncodingFailed")
             /\ UNCHANGED result
    /\ UNCHANGED <<args, existing_gpg, nruns, keyring, history, logs, conn,
                   nsessions, verifying_key, decryption_key, mode, descs, stdout,
                   sock, iter, conns, lookups, primary_bytes>>

RunCreate_SubkeySigning ==
    /\ pc = "rc_subkey_1"
    /\ LET k == ExtendOrder(descs)[1] IN
       Encode("create_subkey", "-", primary_bytes, k,
              create_subkey(primary_bytes, k), "rc_subkey_2")

RunCreate_SubkeyEncryption ==
    /\ pc = "rc_subkey_2"
    /\ LET k == ExtendOrder(descs)[2] IN
       Encode("create_subkey", "-", result, k, create_subkey(result, k), "rc_write")

RunCreate_Primary ==
    /\ pc = "rc_primary"
    /\ Encode("create_primary", args.user_id, <<>>, descs.primary,
              create_primary(args.user_id, descs.primary), "rc_subkey")

RunCreate_Subkey ==
    /\ pc = "rc_subkey"
    /\ LET b == NewSubkeyInput(result) IN
       Encode("create_subkey", "-", b, descs.subkey,
              create_subkey(b, descs.subkey), "rc_write")

Run(a, m, start, r) ==
    [user_id |-> a.user_id, ecdsa_curve |-> a.ecdsa_curve, time |-> a.time,
     mode |-> m, start |-> start, result |-> r, imported |-> FALSE]

\* What run_create writes: the armoring of its last result.
Output_FirstResult(r) == armor(encCalls[1].result, "PUBLIC KEY BLOCK")
Output(r) == armor(r, "PUBLIC KEY BLOCK")

\* sys.stdout.write(protocol.armor(result, 'PUBLIC KEY BLOCK'))
RunCreate_Write ==
    /\ pc = "rc_write"
    /\ stdout' = Append(stdout, Output(result))
    /\ history' = Append(history, Run(args, mode, primary_bytes, result))
    /\ pc' = "exited"
    /\ UNCHANGED <<args, existing_gpg, nruns, keyring, exc, logs, conn, nsessions,
                   signerLog, verifying_key, decryption_key, mode, descs,
                   encCalls, result, sock, iter, conns, lookups, primary_bytes>>

\* -------------------------------------------------------------- run_agent
HandlerOutcomes == {"returned", "Exception", "KeyboardInterrupt"}

Connection == [handled |-> 0, outcome |-> "-", closed |-> 0]

\* `except Exception as e`: exceptions that derive from Exception are caught,
\* KeyboardInterrupt and SystemExit are not.
ExceptClauseCatches_Nothing(e) == FALSE
ExceptClauseCatches(e) == e = "Exception"

\* `with contextlib.closing(conn)`: conn.close() follows the handler on every
\* outcome of the body.
AfterHandler_CloseOnReturnOnly(o) ==
    IF o = "returned" THEN "ra_close"
    ELSE IF o = "Exception" THEN "ra_accept" ELSE "ra_release"
AfterHandler_Retry(o) == IF o = "Exception" THEN "ra_handle" ELSE "ra_close"
AfterHandler(o) == "ra_close"

\* `with server.unix_domain_socket_server(sock_path) as sock`: the endpoint is
\* released when the body is left, with or without an exception in flight.
AfterLoop_LeakOnError(e) == IF e = "none" THEN "ra_release" ELSE "exited"
AfterLoop(e) == "ra_release"

\* sock_path = keyring.get_agent_sock_path(); entering the with statement.
RunAgent_Bind ==
    /\ pc = "ra_bind"
    /\ \E o \in Outcomes :
        IF o = "ok"
        THEN /\ sock' = "bound"
             /\ iter' = "running"
             /\ pc' = "ra_accept"
             /\ exc' = exc
        ELSE /\ Abort("EndpointFault")
             /\ UNCHANGED <<sock, iter>>
    /\ UNCHANGED <<args, existing_gpg, nruns, keyring, logs, conns, createVars>>

\* The next item of agent.yield_connections(sock): a connection, the end of the
\* sequence, or a failure of accept.
RunAgent_Accept ==
    /\ pc = "ra_accept"
    /\ \E o \in {"conn", "end", "fail"} :
        CASE o = "conn" ->
                /\ Len(conns) < MaxConns
                /\ conns' = Append(conns, Connection)
                /\ pc' = "ra_handle"
                /\ UNCHANGED <<exc, iter>>
          [] o = "end" ->
                /\ iter' = "exhausted"
                /\ pc' = AfterLoop(exc)
                /\ UNCHANGED <<conns, exc>>
          [] o = "fail" ->
                /\ iter' = "failed"
                /\ exc' = "AcceptFailed"
                /\ pc' = AfterLoop("AcceptFailed")
                /\ UNCHANGED conns
    /\ UNCHANGED <<args, existing_gpg, nruns, keyring, logs, sock, createVars>>

\* try: agent.handle_connection(conn) / except Exception: log.exception(...)
RunAgent_Handle ==
    /\ pc = "ra_handle"
    /\ \E o \in HandlerOutcomes :
        /\ conns' = [conns EXCEPT ![Len(conns)] =
                        [@ EXCEPT !.handled = @ + 1, !.outcome = o]]
        /\ pc' = AfterHandler(o)
        /\ IF o = "returned"
           THEN UNCHANGED <<exc, logs>>
           ELSE IF ExceptClauseCatches(o)
                THEN /\ logs' = Append(logs, "gpg-agent failed")
                     /\ exc' = exc
                ELSE /\ exc' = o
                     /\ logs' = logs
    /\ UNCHANGED <<args, existing_gpg, nruns, keyring, sock, iter, createVars>>

\* Leaving `with contextlib.closing(conn)`: conn.close().
RunAgent_Close ==
    /\ pc = "ra_close"
    /\ conns' = [conns EXCEPT ![Len(conns)].closed = @ + 1]
    /\ \E o \in Outcomes :
        LET e == IF o = "fail" THEN "CloseFailed" ELSE exc IN
        /\ exc' = e
        /\ pc' = IF e = "none" THEN "ra_accept" ELSE AfterLoop(e)
    /\ UNCHANGED <<args, existing_gpg, nruns, keyring, logs, sock, iter,
                   createVars>>

\* Leaving `with server.unix_domain_socket_server(sock_path)`.
RunAgent_Release ==
    /\ pc = "ra_release"
    /\ sock' = "released"
    /\ pc' = "exited"
    /\ UNCHANGED <<args, existing_gpg, nruns, keyring, exc, logs, iter, conns,
                   createVars>>

\* ------------------------------------------------------------------- Next
Next ==
    \/ Main
    \/ Restart
    \/ Import
    \/ RunCreate_Connect
    \/ RunCreate_Pubkey
    \/ RunCreate_PubkeyEcdh
    \/ RunCreate_KeyExists
    \/ RunCreate_Export
    \/ RunCreate_SubkeySigning
    \/ RunCreate_SubkeyEncryption
    \/ RunCreate_Primary
    \/ RunCreate_Subkey
    \/ RunCreate_Write
    \/ RunAgent_Bind
    \/ RunAgent_Accept
    \/ RunAgent_Handle
    \/ RunAgent_Close
    \/ RunAgent_Release

Spec == Init /\ [][Next]_vars

\* ====================================================== properties: agent
\* run_agent was entered by this invocation.
AgentRan == args.command = "agent" /\ Dispatch(args, existing_gpg) = "ra_bind"
AgentStopped == AgentRan /\ pc = "exited"
Conns == 1..Len(conns)
\* The connection the loop is dispatching right now, if any.
InFlight(i) == i = Len(conns) /\ pc \in {"ra_handle", "ra_close"}

\* C1 (fault isolation): a failure of agent.handle_connection never leaves the
\* except clause, and as long as nothing else has gone wrong (accept has neither
\* failed nor ended, no close raised, no shutdown signal arrived) the loop is
\* alive whatever number of handlers failed: every connection accepted before
\* the current one has been closed, and whenever the loop is back at accept all
\* accepted connections are closed.
C1_FaultIsolation ==
    AgentRan =>
        /\ exc # "Exception"
        /\ (iter = "running" /\ exc = "none") =>
              /\ pc \in {"ra_accept", "ra_handle", "ra_close"}
              /\ \A i \in Conns : i < Len(conns) => conns[i].closed = 1
              /\ pc = "ra_accept" => \A i \in Conns : conns[i].closed = 1

\* C1 witness: three connections accepted, the handler failed on the second,
\* all three are closed and the loop is listening again.
C1_Witness ==
    /\ AgentRan
    /\ pc = "ra_accept"
    /\ Len(conns) = 3
    /\ conns[1].outcome = "returned"
    /\ conns[2].outcome = "Exception"
    /\ conns[3].outcome = "returned"
    /\ \A i \in Conns : conns[i].closed = 1

\* C2 (resource release): conn.close() has been called exactly once on every
\* accepted connection that is no longer being dispatched, whatever the handler
\* did, and not yet on the one being dispatched; so a connection is closed
\* before the next accept begins.
C2_ClosedOnceBeforeNextAccept ==
    AgentRan =>
        \A i \in Conns : conns[i].closed = (IF InFlight(i) THEN 0 ELSE 1)

\* C2 witness: the third connection is being handled after one connection whose
\* handler returned and one whose handler failed, both closed once.
C2_Witness ==
    /\ AgentRan
    /\ pc = "ra_handle"
    /\ Len(conns) = 3
    /\ conns[1].outcome = "returned" /\ conns[1].closed = 1
    /\ conns[2].outcome = "Exception" /\ conns[2].closed = 1

\* C3 (only endpoint faults stop the loop): whenever run_agent has stopped,
\* accept failed or ended or the endpoint could not be acquired; nothing that
\* happens from the handler call through the release of a connection stops it.
\* The process shutdown signal, which section 4.3 names as the other way the
\* loop stops, is let through here, so that what is left to violate the
\* formula is a failure inside the dispatch itself.
C3_OnlyEndpointFaultsStop ==
    AgentStopped =>
        \/ iter \in {"exhausted", "failed"}
        \/ exc \in {"EndpointFault", "KeyboardInterrupt"}

\* C4 (endpoint released on every exit path): when run_agent has stopped, the
\* endpoint it acquired has been released (it is unbound only when acquiring it
\* failed) and close has been called on every accepted connection.
C4_EndpointReleasedOnExit ==
    AgentStopped =>
        /\ sock # "bound"
        /\ sock = "unbound" => (exc = "EndpointFault" /\ conns = <<>>)
        /\ \A i \in Conns : conns[i].closed >= 1

\* C4 witness: run_agent stopped because a failure propagated out of the
\* dispatch of its second connection; the endpoint is released.
C4_Witness ==
    /\ AgentStopped
    /\ exc = "KeyboardInterrupt"
    /\ Len(conns) = 2
    /\ sock = "released"

\* C5 (one handler call per connection, one connection at a time): the handler
\* has been called exactly once on every accepted connection except the one
\* waiting for its call, never twice; only the connection in flight can be open.
C5_HandledOnceSequentially ==
    AgentRan =>
        /\ \A i \in Conns :
              conns[i].handled = (IF i = Len(conns) /\ pc = "ra_handle" THEN 0 ELSE 1)
        /\ {i \in Conns : conns[i].closed = 0} \subseteq {i \in Conns : InFlight(i)}
        /\ Cardinality({i \in Conns : conns[i].closed = 0}) <= 1

\* C5 witness: the loop is listening after a connection whose handler failed,
\* which was handed to the handler once.
C5_Witness ==
    /\ AgentRan
    /\ pc = "ra_accept"
    /\ Len(conns) = 2
    /\ conns[1].outcome = "Exception" /\ conns[1].handled = 1
    /\ conns[2].outcome = "Exception" /\ conns[2].handled = 1

\* ===================================================== properties: create
\* run_create was entered by this invocation.
CreateRan == args.command = "create" /\ Dispatch(args, existing_gpg) = "rc_connect"
\* The lookup of this run_create has returned.
LookupDone == CreateRan /\ mode # "none"
\* This run_create has returned normally (it wrote its container).
CreateSucceeded == CreateRan /\ pc = "exited" /\ stdout # <<>>
\* The keyring is still the one the lookup of this invocation read.
KeyringAsAtLookup == stdout = <<>> \/ ~history[Len(history)].imported
\* The last n packets of a container.
LastPackets(c, n) == SubSeq(c, Len(c) - n + 1, Len(c))
IsPrefix(a, b) == Len(a) <= Len(b) /\ SubSeq(b, 1, Len(a)) = a
Ops == [i \in 1..Len(encCalls) |-> encCalls[i].op]

\* C6 (an existing identity is extended, never regenerated): when the user id
\* is in the exported keyring at the lookup, run_create takes the extend branch,
\* makes no create_primary call, starts from the block exported for that user
\* id, and every container it produces keeps that block as its prefix.
C6_ExistingIdentityIsExtended ==
    (LookupDone /\ KeyringAsAtLookup /\ key_exists(args.user_id)) =>
        /\ mode = "extend"
        /\ \A i \in 1..Len(encCalls) : encCalls[i].op # "create_primary"
        /\ encCalls # <<>> =>
              encCalls[1].primary_bytes = export_public_key(keyring, args.user_id)
        /\ \A i \in 1..Len(encCalls) :
              encCalls[i].ok =>
                  IsPrefix(export_public_key(keyring, args.user_id), encCalls[i].result)

\* C6 witness: a run for a user id that was in the keyring has made both of its
\* encoder calls.
C6_Witness ==
    /\ LookupDone
    /\ pc = "rc_write"
    /\ key_exists(args.user_id)
    /\ mode = "extend"
    /\ Len(encCalls) = 2

\* C7 as stated (idempotent decision): once a call for a user id has succeeded
\* in new mode, every later call for the same user id takes extend mode.
C7_SecondCallExtends ==
    \A i \in 1..Len(history) :
        history[i].mode = "new" =>
            /\ \A j \in 1..Len(history) :
                  (i < j /\ history[j].user_id = history[i].user_id)
                      => history[j].mode = "extend"
            /\ (LookupDone /\ pc # "exited" /\ args.user_id = history[i].user_id)
                  => mode = "extend"

\* C7 amended: once a call for a user id has succeeded in new mode and the
\* container it printed has been imported into the keyring, every later call
\* for the same user id takes extend mode.
C7_SecondCallExtendsAfterImport ==
    \A i \in 1..Len(history) :
        (history[i].mode = "new" /\ history[i].imported) =>
            /\ \A j \in 1..Len(history) :
                  (i < j /\ history[j].user_id = history[i].user_id)
                      => history[j].mode = "extend"
            /\ (LookupDone /\ pc # "exited" /\ args.user_id = history[i].user_id)
                  => mode = "extend"

\* C7 witness: a second successful call for the user id of an imported first
\* call that ran in new mode.
C7_Witness ==
    /\ Len(history) = 2
    /\ history[1].mode = "new"
    /\ history[1].imported
    /\ history[2].user_id = history[1].user_id
    /\ history[2].mode = "extend"

\* C8 (new mode): a run_create that succeeded for a user id absent from the
\* keyring made exactly the encoder calls create_primary, create_subkey, in
\* that order; create_subkey received the output of create_primary; both calls
\* got the sign operation of the one session that served this run's key
\* requests; the non-empty output of create_subkey is what was returned.
C8_NewModeCalls ==
    (CreateSucceeded /\ KeyringAsAtLookup /\ ~key_exists(args.user_id)) =>
        /\ mode = "new"
        /\ Ops = <<"create_primary", "create_subkey">>
        /\ encCalls[1].ok /\ encCalls[2].ok
        /\ encCalls[1].user_id = args.user_id
        /\ encCalls[2].primary_bytes = encCalls[1].result
        /\ conn # 0
        /\ \A i \in 1..Len(encCalls) : encCalls[i].signer_func = conn
        /\ \A i \in 1..Len(signerLog) : signerLog[i].session = conn
        /\ result = encCalls[2].result
        /\ result # <<>>
        /\ stdout = <<armor(encCalls[2].result, "PUBLIC KEY BLOCK")>>

\* C8 witness: a successful run in new mode for a user id not in the keyring.
C8_Witness ==
    /\ CreateSucceeded
    /\ KeyringAsAtLookup
    /\ ~key_exists(args.user_id)
    /\ mode = "new"
    /\ Len(encCalls) = 2

\* C9 (extend mode ordering): a run_create that succeeded in extend mode made
\* exactly two create_subkey calls, for the signing subkey and then for the
\* key-agreement subkey; the second received the output of the first, which
\* holds the signing subkey's binding; the final container ends with the
\* key-agreement subkey and its binding.
C9_ExtendModeOrder ==
    (CreateSucceeded /\ mode = "extend") =>
        /\ Ops = <<"create_subkey", "create_subkey">>
        /\ encCalls[1].key = descs.signing_key /\ ~encCalls[1].key.ecdh
        /\ encCalls[2].key = descs.encryption_key /\ encCalls[2].key.ecdh
        /\ encCalls[1].primary_bytes = primary_bytes
        /\ encCalls[2].primary_bytes = encCalls[1].result
        /\ LastPackets(encCalls[2].primary_bytes, 2) =
              << Packet("subkey", "-", descs.signing_key),
                 Packet("signature", "-", descs.signing_key) >>
        /\ result = encCalls[2].result
        /\ LastPackets(result, 2) =
              << Packet("subkey", "-", descs.encryption_key),
                 Packet("signature", "-", descs.encryption_key) >>

\* C9 witness: a successful run in extend mode.
C9_Witness ==
    /\ CreateSucceeded
    /\ mode = "extend"
    /\ Len(encCalls) = 2
    /\ Len(result) = Len(primary_bytes) + 4

\* C10 (curve derivation): in either mode the key-agreement descriptor carries
\* formats.get_ecdh_curve_name of the requested curve and the signing-role
\* descriptor the requested curve itself; so do the descriptors handed to the
\* encoder.
C10_CurveDerivation ==
    LookupDone =>
        /\ mode = "extend" =>
              /\ descs.signing_key.curve_name = args.ecdsa_curve
              /\ descs.encryption_key.curve_name = get_ecdh_curve_name(args.ecdsa_curve)
        /\ mode = "new" =>
              /\ descs.primary.curve_name = args.ecdsa_curve
              /\ descs.subkey.curve_name = get_ecdh_curve_name(args.ecdsa_curve)
        /\ \A i \in 1..Len(encCalls) :
              encCalls[i].key.curve_name =
                  (IF encCalls[i].key.ecdh THEN get_ecdh_curve_name(args.ecdsa_curve)
                   ELSE args.ecdsa_curve)

\* C10 witness: a successful run for ed25519, whose companion curve differs
\* from it, after the key-agreement subkey was encoded.
C10_Witness ==
    /\ CreateSucceeded
    /\ args.ecdsa_curve = "ed25519"
    /\ encCalls[2].key.ecdh
    /\ encCalls[2].key.curve_name = "curve25519"

\* The records key_exists reads: the decoded export of the whole keyring.
Exported == parse_packets(export_public_keys(keyring))
HasOwnerRecord(user_id) ==
    \E i \in 1..Len(Exported) :
        Exported[i].type = "user_id" /\ Exported[i].value = user_id

\* C11 (lookup correctness): for every user id, key_exists is true exactly
\* when the decoded export holds a record of type user_id whose value is that
\* user id; a record with that value and another type, or of type user_id with
\* another value, does not count.  The branch run_create takes is the one this
\* answer selects.
C11_LookupCorrectness ==
    /\ \A u \in UserIds \cup {"carol", "-"} : key_exists(u) <=> HasOwnerRecord(u)
    /\ (LookupDone /\ KeyringAsAtLookup) =>
          (mode = "extend" <=> HasOwnerRecord(args.user_id))

\* C11 witness: the lookup of "bob" answered no on a keyring that holds a
\* user_id record for "carol" and a record of another type with value "bob".
C11_Witness ==
    /\ LookupDone
    /\ KeyringAsAtLookup
    /\ args.user_id = "bob"
    /\ mode = "new"
    /\ \E i \in 1..Len(Exported) :
          Exported[i].type # "user_id" /\ Exported[i].value = "bob"
    /\ \E i \in 1..Len(Exported) :
          Exported[i].type = "user_id" /\ Exported[i].value # "bob"

SameRequest(r1, r2) ==
    /\ r1.user_id = r2.user_id
    /\ r1.ecdsa_curve = r2.ecdsa_curve
    /\ r1.time = r2.time

\* C12 as stated (determinism): two successful runs with the same user id,
\* curve and timestamp, against the one device, give the same container.
C12_SameRequestSameContainer ==
    \A i, j \in 1..Len(history) :
        SameRequest(history[i], history[j]) => history[i].result = history[j].result

\* C12 amended: two successful runs with the same user id, curve and timestamp
\* that found the same thing in the keyring (the same branch and, in the extend
\* branch, the same exported block) give the same container.
C12_SameRequestAndKeyringSameContainer ==
    \A i, j \in 1..Len(history) :
        (/\ SameRequest(history[i], history[j])
         /\ history[i].mode = history[j].mode
         /\ history[i].start = history[j].start)
            => history[i].result = history[j].result

\* C12 witness: the same request served twice in new mode, with one result.
C12_Witness ==
    /\ Len(history) = 2
    /\ SameRequest(history[1], history[2])
    /\ history[1].mode = "new" /\ history[2].mode = "new"
    /\ history[1].result # <<>>
    /\ history[1].result = history[2].result

SignerOps == [i \in 1..Len(signerLog) |-> <<signerLog[i].op, signerLog[i].ecdh>>]
KeyRequests == << <<"pubkey", FALSE>>, <<"pubkey", TRUE>> >>
\* In a log of calls, the last one failed and the ones before it succeeded.
FailedLast(calls) ==
    /\ calls # <<>>
    /\ ~calls[Len(calls)].ok
    /\ \A i \in 1..(Len(calls) - 1) : calls[i].ok

\* C13 (failures are fatal to the request): when a signer request, the lookup,
\* the export of the existing primary or an encoder call has failed, run_create
\* has ended; the failed call is the last call it made, no call was made twice,
\* and nothing, not even a container built before the failure, was written.
C13_FailureIsFatal ==
    (CreateRan /\ exc # "none") =>
        /\ pc = "exited"
        /\ stdout = <<>>
        /\ exc = "SignerUnavailable" =>
              /\ SignerOps \in {<<>>, SubSeq(KeyRequests, 1, 1), KeyRequests}
              /\ lookups = <<>> /\ encCalls = <<>> /\ mode = "none"
        /\ exc = "LookupFailed" =>
              /\ SignerOps = KeyRequests
              /\ FailedLast(lookups)
              /\ [i \in 1..Len(lookups) |-> lookups[i].op] \in
                    { <<"export_public_keys">>,
                      <<"export_public_keys", "export_public_key">> }
              /\ encCalls = <<>>
        /\ exc = "EncodingFailed" =>
              /\ FailedLast(encCalls)
              /\ Len(encCalls) <= 2
              /\ Len(signerLog) = 2 + Len(encCalls)
              /\ \A i \in 1..Len(lookups) : lookups[i].ok
              /\ Len(lookups) = (IF mode = "extend" THEN 2 ELSE 1)

\* C13 witness: the second encoder call failed after the first had returned a
\* container; nothing was written.
C13_Witness ==
    /\ CreateRan
    /\ exc = "EncodingFailed"
    /\ Len(encCalls) = 2
    /\ encCalls[1].ok /\ encCalls[1].result # <<>>
    /\ stdout = <<>>

\* C14 (a failed lookup is not "does not exist"): when the export or the
\* decoding behind key_exists has failed, run_create has ended with that
\* failure without choosing a branch: it did not enter new mode and made no
\* encoder call, create_primary in particular.
C14_LookupFailureIsNotAbsence ==
    (CreateRan /\ lookups # <<>> /\ ~lookups[1].ok) =>
        /\ exc = "LookupFailed"
        /\ pc = "exited"
        /\ mode = "none"
        /\ encCalls = <<>>
        /\ \A i \in 1..Len(logs) : logs[i] # "creating_primary"

\* C14 witness: the lookup failed for a user id that is in the keyring.
C14_Witness ==
    /\ CreateRan
    /\ lookups # <<>>
    /\ lookups[1].op = "export_public_keys"
    /\ ~lookups[1].ok
    /\ HasOwnerRecord(args.user_id)

\* The distinct key-agreement keys of a container.
EcdhKeys(c) ==
    {c[i].pubkey : i \in {j \in 1..Len(c) :
                            c[j].type \in {"pubkey", "subkey"} /\ c[j].pubkey.ecdh}}
PrimaryIsSigning(c) == c # <<>> /\ c[1].type = "pubkey" /\ ~c[1].pubkey.ecdh
\* The container this run_create started from and the key-agreement descriptor
\* it built.
StartContainer == IF mode = "extend" THEN primary_bytes ELSE <<>>
EcdhDescriptor == IF mode = "extend" THEN descs.encryption_key ELSE descs.subkey

\* C15 as stated (key usage roles): in every container run_create returns, the
\* primary key is signing-role and there is exactly one key-agreement key.
C15_ExactlyOneKeyAgreementKey ==
    CreateSucceeded =>
        /\ PrimaryIsSigning(result)
        /\ Cardinality(EcdhKeys(result)) = 1

\* C15 amended: in every container run_create returns, the primary key is
\* signing-role and the key-agreement keys are those of the container it
\* started from plus the one it built: exactly one in new mode and when the
\* extended identity had none, one more than before otherwise.
C15_OneKeyAgreementKeyAdded ==
    CreateSucceeded =>
        /\ PrimaryIsSigning(result)
        /\ EcdhDescriptor.ecdh
        /\ EcdhKeys(result) = EcdhKeys(StartContainer) \cup {EcdhDescriptor}
        /\ (mode = "new" \/ EcdhKeys(StartContainer) = {}) =>
              Cardinality(EcdhKeys(result)) = 1

\* C15 witness: the identity an earlier run built in new mode was imported and
\* then extended; the container now holds two key-agreement keys.
C15_Witness ==
    /\ CreateSucceeded
    /\ mode = "extend"
    /\ Len(history) = 2
    /\ history[1].mode = "new" /\ history[1].imported
    /\ primary_bytes = history[1].result
    /\ Cardinality(EcdhKeys(result)) = 2

\* C16 (step order of a build): the lookup comes before any request to the
\* signer: whenever run_create has asked the signer for anything, the lookup
\* has already been made, and when the lookup has failed no request has been
\* made to the signer.
C16_LookupBeforeSigner ==
    CreateRan =>
        /\ signerLog # <<>> => lookups # <<>>
        /\ (lookups # <<>> /\ ~lookups[1].ok) => signerLog = <<>>

\* The signing-role descriptor this run_create built.
SigningDescriptor == IF mode = "extend" THEN descs.signing_key ELSE descs.primary
PubkeyRequests == {i \in 1..Len(signerLog) : signerLog[i].op = "pubkey"}

\* C17 (keys and roles): run_create asks the signer for one signing-role key
\* and then one key-agreement key, at most once each and both before the first
\* encoder call; the signing-role descriptor carries the key requested with
\* ecdh=False and the key-agreement descriptor the one requested with
\* ecdh=True, in both branches; in the extend branch these are the keys of this
\* run's requests, whatever the exported primary holds.
C17_KeysMatchRoles ==
    CreateRan =>
        /\ PubkeyRequests \subseteq {1, 2}
        /\ \A i \in PubkeyRequests : SignerOps[i] = KeyRequests[i]
        /\ (LookupDone \/ encCalls # <<>>) => PubkeyRequests = {1, 2}
        /\ LookupDone =>
              /\ verifying_key = pubkey(args.user_id, args.ecdsa_curve, FALSE)
              /\ decryption_key = pubkey(args.user_id, args.ecdsa_curve, TRUE)
              /\ ~SigningDescriptor.ecdh
              /\ SigningDescriptor.verifying_key = verifying_key
              /\ EcdhDescriptor.ecdh
              /\ EcdhDescriptor.verifying_key = decryption_key
        /\ \A i \in 1..Len(encCalls) :
              /\ encCalls[i].key \in {SigningDescriptor, EcdhDescriptor}
              /\ encCalls[i].key.verifying_key.ecdh = encCalls[i].key.ecdh

\* C17 witness: a successful extension of a primary that holds another key:
\* both subkeys carry the keys this run requested, each for its role.
C17_Witness ==
    /\ CreateSucceeded
    /\ mode = "extend"
    /\ primary_bytes[1].pubkey.verifying_key # verifying_key
    /\ encCalls[1].key.verifying_key = verifying_key
    /\ encCalls[2].key.verifying_key = decryption_key
    /\ verifying_key # decryption_key

\* C18 (one creation timestamp): every descriptor run_create builds or hands
\* to the encoder carries args.time, and so does every key packet the run adds
\* to the container it started from.
C18_SameCreationTime ==
    LookupDone =>
        /\ SigningDescriptor.created = args.time
        /\ EcdhDescriptor.created = args.time
        /\ \A i \in 1..Len(encCalls) : encCalls[i].key.created = args.time
        /\ \A i \in (Len(StartContainer) + 1)..Len(result) :
              result[i].type \in {"pubkey", "subkey"}
                  => result[i].pubkey.created = args.time

\* C18 witness: a successful extension, requested with time 2 in the first
\* invocation, of a primary created at another time.
C18_Witness ==
    /\ CreateSucceeded
    /\ mode = "extend"
    /\ args.time = 2
    /\ nruns = 1
    /\ primary_bytes[1].pubkey.created # 2
    /\ encCalls[1].key.created = 2
    /\ encCalls[2].key.created = 2

\* C19 (one write, of the final container): run_create writes nothing before
\* it ends; a run that ended without a failure wrote exactly once, after both
\* of its encoder calls had returned, the PUBLIC KEY BLOCK armoring of the
\* second call's result and not of the first call's.
C19_WritesFinalContainerOnce ==
    CreateRan =>
        /\ Len(stdout) <= 1
        /\ pc # "exited" => stdout = <<>>
        /\ (pc = "exited" /\ exc = "none") => Len(stdout) = 1
        /\ stdout # <<>> =>
              /\ exc = "none"
              /\ Len(encCalls) = 2
              /\ encCalls[1].ok /\ encCalls[2].ok
              /\ stdout[1] = [head |-> "PUBLIC KEY BLOCK", body |-> encCalls[2].result]
              /\ stdout[1].body # encCalls[1].result

\* C19 witness: a successful run in new mode wrote the container that holds
\* the subkey, not the one create_primary returned.
C19_Witness ==
    /\ CreateSucceeded
    /\ mode = "new"
    /\ Len(stdout) = 1
    /\ stdout[1].body = encCalls[2].result
    /\ Len(stdout[1].body) = Len(encCalls[1].result) + 2

\* ======================================================= properties: main
\* main has parsed its arguments and read the gpg version.
Started == pc # "main"
\* A version as one number, to compare it with 2.1.15 (all parts are below 100).
VersionNumber(v) == v[1] * 10000 + v[2] * 100 + v[3]
VersionOk == VersionNumber(existing_gpg) >= VersionNumber(<<2, 1, 15>>)

\* C20 (version gate): a command is running only when the installed gpg is
\* 2.1.15 or later; with an older gpg main has logged the error and ended, and
\* this invocation has opened no signer session, made no signer request, no
\* keyring lookup and no encoder call, written nothing and acquired no endpoint.
C20_VersionGate ==
    Started =>
        /\ pc # "exited" => VersionOk
        /\ ~VersionOk =>
              /\ pc = "exited"
              /\ logs = <<"experimental", "gpg_version_error">>
              /\ conn = 0 /\ signerLog = <<>>
              /\ lookups = <<>>
              /\ encCalls = <<>>
              /\ stdout = <<>>
              /\ sock = "unbound" /\ iter = "none" /\ conns = <<>>
        /\ VersionOk => \A i \in 1..Len(logs) : logs[i] # "gpg_version_error"

\* C20 witness: create was asked for with gpg 2.1.14 installed; main ended
\* after logging the error.
C20_Witness ==
    /\ Started
    /\ args.command = "create"
    /\ existing_gpg = <<2, 1, 14>>
    /\ pc = "exited"
    /\ logs[Len(logs)] = "gpg_version_error"

====
